---- MODULE Spec2Model ----
(***************************************************************************)
(* Field normalisation and classification core of asx_analysis.py:         *)
(* build_commodity_mapping (the taxonomy flattener) and                    *)
(* check_and_generate_fields (the derived-field generator).                *)
(*                                                                         *)
(* Strings are sequences of character tokens, so that lower() and the      *)
(* substring test of the commodity fallback are computed, not assumed; a   *)
(* literal the code only compares as a whole ("Unknown", "VLOC", a number  *)
(* printed by astype(str)) is a single token.                              *)
(* A cell of a DataFrame is a tagged value [t, s, n]:                      *)
(*   "nan"      float NaN / None        (a missing cell, pd.isna is true)  *)
(*   "nat"      pandas NaT              (a missing datetime)               *)
(*   "str"      a string, s its characters                                 *)
(*   "int"      an integer n                                               *)
(*   "float"    a float whose value is the whole number n                  *)
(*   "datetime" a datetime64 value, n = yyyymmdd                           *)
(* An ISO-8601 date string is the string <<yyyy, "-", mm, "-", dd>>.       *)
(***************************************************************************)
EXTENDS Integers, Sequences, FiniteSets, TLC

VARIABLES
    hierarchy,          \* the taxonomy document handed to build_commodity_mapping
    commodity_mapping,  \* the dict returned by build_commodity_mapping
    raw,                \* the DataFrame object the caller owns and passes in
    raw0,               \* its content before the first call (history)
    arg,                \* the content of the DataFrame passed to the last call
    ret,                \* what the last call returned: [df, modified, raised]
    aliased,            \* ret.df is the very object `raw` (no copy was made)
    pc,                 \* "start" | "mapped" | "generated" | "charted"; "rerun" | "served"
    view,               \* what the last call of a chart function did
    build,              \* the build of the libraries the program runs on
    github,             \* the repository: its status and its two files
    session,            \* st.session_state: the taxonomy is loaded; from what
    cache,              \* the entries of st.cache_data for load_and_process_data
    served,             \* what load_and_process_data last gave main, for which mapping
    persisted           \* the last upload of the dataset: the file, under which mapping

vars == <<hierarchy, commodity_mapping, raw, raw0, arg, ret, aliased, pc, view, build,
          github, session, cache, served, persisted>>
storage == <<github, session, cache, served, persisted>>

----------------------------------------------------------------------------
\* Bounds of the model

MaxRows == 2        \* rows of an input dataset
MaxLeaves == 2      \* leaf terms of one terminal list of the taxonomy
MaxDepth == 3       \* nesting of category objects below the root object

----------------------------------------------------------------------------
\* Cell values

Cell(t, s, n) == [t |-> t, s |-> s, n |-> n]
NaN == Cell("nan", <<>>, 0)
NaT == Cell("nat", <<>>, 0)
StrV(s) == Cell("str", s, 0)
IntV(k) == Cell("int", <<>>, k)
FloatV(k) == Cell("float", <<>>, k)
Timestamp(k) == Cell("datetime", <<>>, k)

\* pd.isna
isna(v) == v.t \in {"nan", "nat"}

\* isinstance(v, str)
isinstance_str(v) == v.t = "str"

\* str.lower, character by character
UpperCase ==
    <<"A", "B", "C", "D", "E", "F", "G", "H", "I", "J", "K", "L", "M",
      "N", "O", "P", "Q", "R", "S", "T", "U", "V", "W", "X", "Y", "Z">>
LowerCase ==
    <<"a", "b", "c", "d", "e", "f", "g", "h", "i", "j", "k", "l", "m",
      "n", "o", "p", "q", "r", "s", "t", "u", "v", "w", "x", "y", "z">>
LowerChar(c) ==
    IF \E i \in DOMAIN UpperCase : UpperCase[i] = c
    THEN LowerCase[CHOOSE i \in DOMAIN UpperCase : UpperCase[i] = c]
    ELSE c
lower(s) == [i \in DOMAIN s |-> LowerChar(s[i])]

\* Python's `a in b` on two strings: a occurs in b as a contiguous substring
Contains(b, a) ==
    \E i \in 0..(Len(b) - Len(a)) : SubSeq(b, i + 1, i + Len(a)) = a

\* The literal "Unknown"
Unknown == StrV(<<"Unknown">>)
UnknownLevels == <<Unknown, Unknown, Unknown>>

----------------------------------------------------------------------------
\* A Python dict: entries in insertion order; assigning an existing key
\* replaces its value and keeps its position

DictHas(d, k) == \E i \in DOMAIN d : d[i].key = k
DictGet(d, k) == d[CHOOSE i \in DOMAIN d : d[i].key = k].value
\* mutant: an existing key keeps its value
DictSet_keep_first(d, k, v) ==
    IF DictHas(d, k) THEN d ELSE Append(d, [key |-> k, value |-> v])

DictSet(d, k, v) ==
    IF DictHas(d, k)
    THEN [i \in DOMAIN d |-> IF d[i].key = k THEN [key |-> k, value |-> v] ELSE d[i]]
    ELSE Append(d, [key |-> k, value |-> v])
DictKeys(d) == {d[i].key : i \in DOMAIN d}

----------------------------------------------------------------------------
\* build_commodity_mapping.  A node of the taxonomy is
\*   [kind |-> "dict", items |-> sequence of [key, value]]  a category object
\*   [kind |-> "list", items |-> sequence of cells]          a terminal list
\* and any other kind (a scalar) is skipped by traverse.

DictNode(items) == [kind |-> "dict", items |-> items]
ListNode(items) == [kind |-> "list", items |-> items]

\* mutant: level3 is the innermost category instead of the third one
Levels_innermost(path) ==
    LET level1 == IF Len(path) > 0 THEN StrV(path[1]) ELSE Unknown
        level2 == IF Len(path) > 1 THEN StrV(path[2]) ELSE level1
        level3 == IF Len(path) > 2 THEN StrV(path[Len(path)]) ELSE level2
    IN  <<level1, level2, level3>>

\* the level assignment of one leaf under the ancestor path `path`
Levels(path) ==
    LET level1 == IF Len(path) > 0 THEN StrV(path[1]) ELSE Unknown
        level2 == IF Len(path) > 1 THEN StrV(path[2]) ELSE level1
        level3 == IF Len(path) > 2 THEN StrV(path[3]) ELSE level2
    IN  <<level1, level2, level3>>

RECURSIVE traverse(_, _, _)
RECURSIVE traverse_dict(_, _, _, _)
RECURSIVE traverse_list(_, _, _, _)

\* for key, value in node.items(): traverse(value, path + [key])
traverse_dict(mapping, items, path, i) ==
    IF i > Len(items) THEN mapping
    ELSE traverse_dict(traverse(mapping, items[i].value, Append(path, items[i].key)),
                       items, path, i + 1)

\* mutant: only the first term of a terminal list is recorded
traverse_list_first_only(mapping, items, path, i) ==
    IF Len(items) = 0 THEN mapping ELSE DictSet(mapping, items[1], Levels(path))

\* for item in node: mapping[item] = (level1, level2, level3)
traverse_list(mapping, items, path, i) ==
    IF i > Len(items) THEN mapping
    ELSE traverse_list(DictSet(mapping, items[i], Levels(path)), items, path, i + 1)

traverse(mapping, node, path) ==
    IF node.kind = "dict" THEN traverse_dict(mapping, node.items, path, 1)
    ELSE IF node.kind = "list" THEN traverse_list(mapping, node.items, path, 1)
    ELSE mapping

build_commodity_mapping(h) == traverse(<<>>, h, <<>>)

----------------------------------------------------------------------------
\* A DataFrame: [cols |-> the set of column names, rows |-> the sequence of
\* rows], each row a function from cols to cells

Frame(cols, rows) == [cols |-> cols, rows |-> rows]

\* df[name] = values : add or overwrite one column, row by row
SetColumn(df, name, values) ==
    Frame(df.cols \cup {name},
          [i \in DOMAIN df.rows |->
              [c \in df.cols \cup {name} |->
                  IF c = name THEN values[i] ELSE df.rows[i][c]]])

\* df[name] as a sequence of cells
Column(df, name) == [i \in DOMAIN df.rows |-> df.rows[i][name]]

\* what check_and_generate_fields carries from rule to rule:
\*   df        the frame the local name df is bound to
\*   modified  the flag
\*   raised    an exception has left the function
\*   copied    df is a new object (.copy()), no longer the caller's
Carry(df, modified, raised, copied) ==
    [df |-> df, modified |-> modified, raised |-> raised, copied |-> copied]

\* the string 'laden'
laden == StrV(<<"l", "a", "d", "e", "n">>)

\* mutant: the comparison with 'laden' ignores case
IsLaden_anycase(row) ==
    row["voyage_type"].t = "str" /\ lower(row["voyage_type"].s) = laden.s

\* rule 1: df[df['voyage_type'] == 'laden'].copy() when some row is not laden
IsLaden(row) == row["voyage_type"] = laden

\* mutant: the filter drops the rows and leaves the flag as it was
voyage_filter_unflagged(st) ==
    IF "voyage_type" \in st.df.cols /\ Len(SelectSeq(st.df.rows, IsLaden)) < Len(st.df.rows)
    THEN Carry(Frame(st.df.cols, SelectSeq(st.df.rows, IsLaden)), st.modified, FALSE, TRUE)
    ELSE st

voyage_filter(st) ==
    IF "voyage_type" \in st.df.cols
    THEN LET kept == SelectSeq(st.df.rows, IsLaden)
             laden_count == Len(kept)
             total_count == Len(st.df.rows)
         IN  IF laden_count < total_count
             THEN Carry(Frame(st.df.cols, kept), TRUE, FALSE, TRUE)
             ELSE st
    ELSE st

\* thresholds of get_dwt_type
VLOC_MIN == 200000
CAPESIZE_MIN == 100000
PANAMAX_MIN == 65000
SUPRAMAX_MIN == 40000

\* returned in place of a cell when the applied function raises
Raise == Cell("raise", <<>>, 0)

\* mutant: the lower bounds are exclusive
get_dwt_type_exclusive(dwt) ==
    IF isna(dwt) THEN Unknown
    ELSE IF dwt.t \notin {"int", "float"} THEN Raise
    ELSE IF dwt.n > VLOC_MIN THEN StrV(<<"VLOC">>)
    ELSE IF dwt.n > CAPESIZE_MIN THEN StrV(<<"Capesize">>)
    ELSE IF dwt.n > PANAMAX_MIN THEN StrV(<<"Panamax/Kamsarmax">>)
    ELSE IF dwt.n > SUPRAMAX_MIN THEN StrV(<<"Supramax/Ultramax">>)
    ELSE StrV(<<"Handysize">>)

\* get_dwt_type: comparing a str (or a datetime) with an int is a TypeError
get_dwt_type(dwt) ==
    IF isna(dwt) THEN Unknown
    ELSE IF dwt.t \notin {"int", "float"} THEN Raise
    ELSE IF dwt.n >= VLOC_MIN THEN StrV(<<"VLOC">>)
    ELSE IF dwt.n >= CAPESIZE_MIN THEN StrV(<<"Capesize">>)
    ELSE IF dwt.n >= PANAMAX_MIN THEN StrV(<<"Panamax/Kamsarmax">>)
    ELSE IF dwt.n >= SUPRAMAX_MIN THEN StrV(<<"Supramax/Ultramax">>)
    ELSE StrV(<<"Handysize">>)

\* mutant: the rule does not look whether vessel_dwt_type is there already
dwt_rule_regenerates(st) ==
    IF st.raised THEN st
    ELSE IF "vsl_dwt" \in st.df.cols
    THEN LET col == Column(st.df, "vsl_dwt")
             out == [i \in DOMAIN col |-> get_dwt_type(col[i])]
         IN  IF \E i \in DOMAIN out : out[i] = Raise
             THEN [st EXCEPT !.raised = TRUE]
             ELSE [st EXCEPT !.df = SetColumn(st.df, "vessel_dwt_type", out),
                             !.modified = TRUE]
    ELSE st

\* rule 2: df['vessel_dwt_type'] = df['vsl_dwt'].apply(get_dwt_type)
dwt_rule(st) ==
    IF st.raised THEN st
    ELSE IF "vessel_dwt_type" \notin st.df.cols /\ "vsl_dwt" \in st.df.cols
    THEN LET col == Column(st.df, "vsl_dwt")
             out == [i \in DOMAIN col |-> get_dwt_type(col[i])]
         IN  IF \E i \in DOMAIN out : out[i] = Raise
             THEN [st EXCEPT !.raised = TRUE]
             ELSE [st EXCEPT !.df = SetColumn(st.df, "vessel_dwt_type", out),
                             !.modified = TRUE]
    ELSE st

\* the digit groups that occur in the date strings of the model
Digits ==
    ("2023" :> 2023) @@ ("2024" :> 2024) @@ ("01" :> 1) @@ ("02" :> 2) @@
    ("07" :> 7) @@ ("12" :> 12) @@ ("13" :> 13) @@ ("15" :> 15) @@
    ("30" :> 30) @@ ("31" :> 31)

DaysInMonth(y, m) ==
    IF m \in {4, 6, 9, 11} THEN 30
    ELSE IF m = 2 THEN (IF y % 4 = 0 /\ (y % 100 # 0 \/ y % 400 = 0) THEN 29 ELSE 28)
    ELSE 31

\* parsing "yyyy-mm-dd": a malformed string or an impossible date is NaT
parse_iso(s) ==
    IF /\ Len(s) = 5
       /\ s[2] = "-" /\ s[4] = "-"
       /\ {s[1], s[3], s[5]} \subseteq DOMAIN Digits
    THEN LET y == Digits[s[1]]
             m == Digits[s[3]]
             d == Digits[s[5]]
         IN  IF y >= 1000 /\ m \in 1..12 /\ d \in 1..DaysInMonth(y, m)
             THEN Timestamp(y * 10000 + m * 100 + d)
             ELSE NaT
    ELSE NaT

\* pd.to_datetime(value, errors='coerce') on one cell of load_end_date
to_datetime(v) ==
    CASE v.t = "datetime" -> v
      [] isna(v) -> NaT
      [] v.t = "str" -> parse_iso(v.s)

year_of(ts) == ts.n \div 10000
month_of(ts) == (ts.n \div 100) % 100
quarter_of(ts) == (month_of(ts) - 1) \div 3 + 1

\* Series.dt.year / .dt.quarter / .dt.month : an integer column when no value
\* is NaT, a float column (NaN for NaT) as soon as one is
field_of(ts, field) ==
    CASE field = "year" -> year_of(ts)
      [] field = "quarter" -> quarter_of(ts)
      [] field = "month" -> month_of(ts)
dt_field(col, field) ==
    LET hasNaT == \E i \in DOMAIN col : col[i] = NaT
    IN  [i \in DOMAIN col |->
            IF col[i] = NaT THEN NaN
            ELSE IF hasNaT THEN FloatV(field_of(col[i], field))
            ELSE IntV(field_of(col[i], field))]

\* Series.astype(str) on one cell: 1 -> "1", 1.0 -> "1.0", NaN -> "nan"
astype_str(v) ==
    CASE v.t = "int" -> <<ToString(v.n)>>
      [] v.t = "float" -> <<ToString(v.n), ".", "0">>
      [] v.t = "nan" -> <<"n", "a", "n">>

\* prefix + Series.astype(str)
prefixed(prefix, col) == [i \in DOMAIN col |-> StrV(<<prefix>> \o astype_str(col[i]))]

DateFields == {"Year", "Quarter", "Month"}

\* rule 3: coerce load_end_date, then fill each of Year, Quarter, Month that
\* is not a column yet
\* mutant: load_end_date is coerced whenever the column is there
date_rule_always_coerces(st) ==
    IF st.raised THEN st
    ELSE LET missing_date_fields == DateFields \ st.df.cols
         IN  IF "load_end_date" \in st.df.cols
             THEN LET dates == [i \in DOMAIN st.df.rows |->
                                   to_datetime(st.df.rows[i]["load_end_date"])]
                      d0 == SetColumn(st.df, "load_end_date", dates)
                      d1 == IF "Year" \notin d0.cols
                            THEN SetColumn(d0, "Year", dt_field(dates, "year"))
                            ELSE d0
                      d2 == IF "Quarter" \notin d1.cols
                            THEN SetColumn(d1, "Quarter",
                                           prefixed("Q", dt_field(dates, "quarter")))
                            ELSE d1
                      d3 == IF "Month" \notin d2.cols
                            THEN SetColumn(d2, "Month",
                                           prefixed("M", dt_field(dates, "month")))
                            ELSE d2
                      m1 == st.modified \/ "Year" \notin d0.cols
                      m2 == m1 \/ "Quarter" \notin d1.cols
                      m3 == m2 \/ "Month" \notin d2.cols
                  IN  [st EXCEPT !.df = d3, !.modified = m3]
             ELSE st

date_rule(st) ==
    IF st.raised THEN st
    ELSE LET missing_date_fields == DateFields \ st.df.cols
         IN  IF missing_date_fields # {} /\ "load_end_date" \in st.df.cols
             THEN LET dates == [i \in DOMAIN st.df.rows |->
                                   to_datetime(st.df.rows[i]["load_end_date"])]
                      d0 == SetColumn(st.df, "load_end_date", dates)
                      d1 == IF "Year" \notin d0.cols
                            THEN SetColumn(d0, "Year", dt_field(dates, "year"))
                            ELSE d0
                      d2 == IF "Quarter" \notin d1.cols
                            THEN SetColumn(d1, "Quarter",
                                           prefixed("Q", dt_field(dates, "quarter")))
                            ELSE d1
                      d3 == IF "Month" \notin d2.cols
                            THEN SetColumn(d2, "Month",
                                           prefixed("M", dt_field(dates, "month")))
                            ELSE d2
                      m1 == st.modified \/ "Year" \notin d0.cols
                      m2 == m1 \/ "Quarter" \notin d1.cols
                      m3 == m2 \/ "Month" \notin d2.cols
                  IN  [st EXCEPT !.df = d3, !.modified = m3]
             ELSE st

CommodityFields ==
    {"commodity_type_1level", "commodity_type_2level", "commodity_type_3level"}

RaiseLevels == <<Raise, Raise, Raise>>

\* the partial-match loop of get_commodity_levels, from the i-th entry on;
\* commodity.lower() is an AttributeError when commodity is not a str
RECURSIVE partial_match(_, _, _)
partial_match(commodity, mapping, i) ==
    IF i > Len(mapping) THEN UnknownLevels
    ELSE IF isinstance_str(mapping[i].key)
    THEN IF ~isinstance_str(commodity) THEN RaiseLevels
         ELSE IF Contains(lower(commodity.s), lower(mapping[i].key.s))
         THEN mapping[i].value
         ELSE partial_match(commodity, mapping, i + 1)
    ELSE partial_match(commodity, mapping, i + 1)

\* mutant: the partial match is tried before the exact one
get_commodity_levels_partial_first(commodity, mapping) ==
    IF isna(commodity) THEN UnknownLevels
    ELSE IF partial_match(commodity, mapping, 1) # UnknownLevels
    THEN partial_match(commodity, mapping, 1)
    ELSE IF DictHas(mapping, commodity) THEN DictGet(mapping, commodity)
    ELSE UnknownLevels

get_commodity_levels(commodity, mapping) ==
    IF isna(commodity) THEN UnknownLevels
    ELSE IF DictHas(mapping, commodity) THEN DictGet(mapping, commodity)
    ELSE partial_match(commodity, mapping, 1)

\* rule 4: classify df['commodity'] and assign the three level columns;
\* assigning three columns from the frame built of an empty list (no rows) is
\* a ValueError
commodity_rule(st, mapping) ==
    IF st.raised THEN st
    ELSE LET missing_commodity_fields == CommodityFields \ st.df.cols
         IN  IF /\ missing_commodity_fields # {}
                /\ "commodity" \in st.df.cols
                /\ Len(mapping) > 0
             THEN LET col == Column(st.df, "commodity")
                      levels == [i \in DOMAIN col |-> get_commodity_levels(col[i], mapping)]
                      level(k) == [i \in DOMAIN col |-> levels[i][k]]
                  IN  IF \E i \in DOMAIN col : levels[i] = RaiseLevels
                      THEN [st EXCEPT !.raised = TRUE]
                      ELSE IF Len(st.df.rows) = 0
                      THEN [st EXCEPT !.raised = TRUE]
                      ELSE [st EXCEPT
                              !.df = SetColumn(SetColumn(SetColumn(st.df,
                                         "commodity_type_1level", level(1)),
                                         "commodity_type_2level", level(2)),
                                         "commodity_type_3level", level(3)),
                              !.modified = TRUE]
             ELSE st

check_and_generate_fields(df, mapping) ==
    commodity_rule(date_rule(dwt_rule(voyage_filter(Carry(df, FALSE, FALSE, FALSE)))),
                   mapping)

----------------------------------------------------------------------------
\* The chart operations create_trade_flow_charts, create_time_series_charts
\* and create_seasonal_charts: filter, aggregate, rank

LocationFields == {"load_zone", "discharge_zone", "load_country", "discharge_country"}

\* .head(10)
TOP_N == 10

\* a DataFrame object inside a chart function: df is its content, shared tells
\* whether it is the very object the caller passed in
Obj(df, shared) == [df |-> df, shared |-> shared]

\* mutant: the function works on the caller's object
copy_none(df) == Obj(df, TRUE)

\* df.copy()
copy(df) == Obj(df, FALSE)

\* o[o[col].isin(values)] : the rows whose cell is one of the values, in order,
\* as a new object
isin_rows(o, col, values) ==
    Obj(Frame(o.df.cols, SelectSeq(o.df.rows, LAMBDA r : r[col] \in values)), FALSE)

\* the criteria in force when a chart function is called: the sidebar
\* selections and the choices of the tab, of which each function receives the
\* ones it has a parameter for; an unpopulated criterion (None or an empty
\* list) is the empty set, no date range the empty sequence, no location type
\* the empty string
Criteria(vessel, l1, l2, l3, analysis, loc, selected, dates) ==
    [vessel_type |-> vessel, commodity_level1 |-> l1, commodity_level2 |-> l2,
     commodity_level3 |-> l3, analysis_type |-> analysis, location_type |-> loc,
     selected_locations |-> selected, date_range |-> dates]

\* mutant: the third commodity level is not filtered
dimension_filters_two_levels(o, c) ==
    LET f1 == IF c.vessel_type # {} THEN isin_rows(o, "vessel_dwt_type", c.vessel_type) ELSE o
        f2 == IF c.commodity_level1 # {}
              THEN isin_rows(f1, "commodity_type_1level", c.commodity_level1) ELSE f1
        f3 == IF c.commodity_level2 # {}
              THEN isin_rows(f2, "commodity_type_2level", c.commodity_level2) ELSE f2
    IN  f3

\* the four `if criterion: filtered_df = filtered_df[... .isin(criterion)]`
dimension_filters(o, c) ==
    LET f1 == IF c.vessel_type # {} THEN isin_rows(o, "vessel_dwt_type", c.vessel_type) ELSE o
        f2 == IF c.commodity_level1 # {}
              THEN isin_rows(f1, "commodity_type_1level", c.commodity_level1) ELSE f1
        f3 == IF c.commodity_level2 # {}
              THEN isin_rows(f2, "commodity_type_2level", c.commodity_level2) ELSE f2
        f4 == IF c.commodity_level3 # {}
              THEN isin_rows(f3, "commodity_type_3level", c.commodity_level3) ELSE f3
    IN  f4

\* if date_range and len(date_range) == 2
has_date_range(c) == Len(c.date_range) = 2

\* mutant: the end of the interval is exclusive
between_dates_open_end(o, range) ==
    Obj(Frame(o.df.cols,
              SelectSeq(o.df.rows,
                        LAMBDA r : /\ r["load_end_date"].t = "datetime"
                                   /\ r["load_end_date"].n >= range[1]
                                   /\ r["load_end_date"].n < range[2])),
        FALSE)

\* o[(o['load_end_date'] >= start_date) & (o['load_end_date'] <= end_date)] :
\* a comparison with NaT is false
between_dates(o, range) ==
    Obj(Frame(o.df.cols,
              SelectSeq(o.df.rows,
                        LAMBDA r : /\ r["load_end_date"].t = "datetime"
                                   /\ r["load_end_date"].n >= range[1]
                                   /\ r["load_end_date"].n <= range[2])),
        FALSE)

\* the column is a datetime64 column (the .dt accessor and the comparison with
\* dates need one)
is_datetime64(df, col) ==
    /\ col \in df.cols
    /\ \A i \in DOMAIN df.rows : df.rows[i][col].t \in {"datetime", "nat"}

\* Series.dt.to_period('M').astype(str) on one cell: "2023-02", "NaT"
period_str(v) ==
    IF v.t = "datetime"
    THEN StrV(<<ToString(year_of(v)), "-">> \o
              (IF month_of(v) < 10 THEN <<"0", ToString(month_of(v))>>
               ELSE <<ToString(month_of(v))>>))
    ELSE StrV(<<"NaT">>)

\* mutant: the sum counts the rows
sum_measure_count(rows) == Len(rows)

\* Series.sum() of voy_intake_mt over rows: a missing value adds nothing
RECURSIVE sum_measure(_)
sum_measure(rows) ==
    IF rows = <<>> THEN 0
    ELSE (IF isna(Head(rows)["voy_intake_mt"]) THEN 0 ELSE Head(rows)["voy_intake_mt"].n)
         + sum_measure(Tail(rows))

\* df.groupby(by)['voy_intake_mt'].sum().reset_index() : one group per tuple of
\* key values; a row with a missing key value belongs to no group
groupby_sum(df, by) ==
    LET key(r) == [i \in DOMAIN by |-> r[by[i]]]
        keys == {key(df.rows[i]) : i \in DOMAIN df.rows}
        valid == {k \in keys : \A i \in DOMAIN k : ~isna(k[i])}
    IN  {[key |-> k, value |-> sum_measure(SelectSeq(df.rows, LAMBDA r : key(r) = k))] :
            k \in valid}

\* the place names of the model in str order, as groupby sorts its keys
PlaceOrder ==
    <<"K1", "K2", "Z01", "Z02", "Z03", "Z04", "Z05", "Z06", "Z07", "Z08", "Z09",
      "Z10", "Z11", "Z12">>
place_rank(k) == CHOOSE i \in DOMAIN PlaceOrder : PlaceOrder[i] = k[1].s[1]

\* g comes before h in a descending sort; groups of equal value keep their
\* key order or come in the reverse of it
sorts_before(g, h, reversed) ==
    \/ g.value > h.value
    \/ /\ g.value = h.value
       /\ IF reversed THEN place_rank(g.key) > place_rank(h.key)
          ELSE place_rank(g.key) < place_rank(h.key)

\* mutant: ascending
RECURSIVE sort_values_ascending(_, _)
sort_values_ascending(groups, reversed) ==
    IF groups = {} THEN <<>>
    ELSE LET first == CHOOSE g \in groups : \A h \in groups \ {g} : sorts_before(h, g, reversed)
         IN  <<first>> \o sort_values_ascending(groups \ {first}, reversed)

\* agg.sort_values('voy_intake_mt', ascending=False)
RECURSIVE sort_values(_, _)
sort_values(groups, reversed) ==
    IF groups = {} THEN <<>>
    ELSE LET first == CHOOSE g \in groups : \A h \in groups \ {g} : sorts_before(g, h, reversed)
         IN  <<first>> \o sort_values(groups \ {first}, reversed)

\* .head(n)
head(s, n) == SubSeq(s, 1, IF Len(s) < n THEN Len(s) ELSE n)

\* what one call of a chart function did:
\*   stage     the frame after the four dimension filters
\*   filtered  the frame the aggregation read (the frame at the return, when
\*             the call returned early or raised)
\*   outcome   "empty" (warning and return), "done", "raise"
\*   charts    one record per aggregation: the year of a per-year ranking (NaN
\*             when the aggregation is not per year), the grouping columns,
\*             the groups, and the ranking shown
\*   after     the content of the caller's dataset after the call
ChartResult(kind, c, stage, filtered, outcome, charts, after) ==
    [kind |-> kind, criteria |-> c, stage |-> stage, filtered |-> filtered,
     outcome |-> outcome, charts |-> charts, after |-> after]

\* the grouping columns of the rankings of each analysis type
ranked_by(analysis) ==
    CASE analysis = "overall" -> LocationFields
      [] analysis = "loading" -> {"discharge_zone"}
      [] analysis = "discharging" -> {"load_zone"}

create_trade_flow_charts(df, c, bld) ==
    LET o == dimension_filters(copy(df), c)
        f == o.df
        years == {y \in {f.rows[i]["Year"] : i \in DOMAIN f.rows} : ~isna(y)}
        year_df(y) == Frame(f.cols, SelectSeq(f.rows, LAMBDA r : r["Year"] = y))
        chart(y, b) ==
            LET agg == groupby_sum(year_df(y), <<b>>)
            IN  [year |-> y, by |-> <<b>>, groups |-> agg,
                 ranking |-> head(sort_values(agg, bld.ties_reversed), TOP_N)]
    IN  IF f.rows = <<>> THEN ChartResult("trade_flow", c, f, f, "empty", {}, df)
        ELSE IF ~({"Year", "voy_intake_mt"} \cup ranked_by(c.analysis_type) \subseteq f.cols)
        THEN ChartResult("trade_flow", c, f, f, "raise", {}, df)
        ELSE ChartResult("trade_flow", c, f, f, "done",
                         {chart(y, b) : y \in years, b \in ranked_by(c.analysis_type)}, df)

create_time_series_charts(df, c, bld) ==
    LET start == copy(df)
        dims == dimension_filters(start, c)
        dated == IF has_date_range(c) THEN between_dates(dims, c.date_range) ELSE dims
        located == c.selected_locations # {} /\ c.location_type \in dated.df.cols
        chosen == IF located THEN isin_rows(dated, c.location_type, c.selected_locations)
                  ELSE dated
        bucketed ==
            Obj(SetColumn(chosen.df, "Month_Year",
                          [i \in DOMAIN chosen.df.rows |->
                              period_str(chosen.df.rows[i]["load_end_date"])]),
                chosen.shared)
        by == IF located THEN <<c.location_type, "Month_Year">> ELSE <<"Month_Year">>
        after == IF bucketed.shared THEN bucketed.df ELSE df
    IN  IF has_date_range(c) /\ (bld.strict_dates \/ ~is_datetime64(df, "load_end_date"))
        THEN ChartResult("time_series", c, dims.df, dims.df, "raise", {}, df)
        ELSE IF dated.df.rows = <<>>
        THEN ChartResult("time_series", c, dims.df, dated.df, "empty", {}, df)
        ELSE IF ~is_datetime64(df, "load_end_date")
        THEN ChartResult("time_series", c, dims.df, chosen.df, "raise", {}, df)
        ELSE IF "voy_intake_mt" \notin df.cols
        THEN ChartResult("time_series", c, dims.df, bucketed.df, "raise", {}, after)
        ELSE ChartResult("time_series", c, dims.df, bucketed.df, "done",
                         {[year |-> NaN, by |-> by, groups |-> groupby_sum(bucketed.df, by),
                           ranking |-> <<>>]},
                         after)

create_seasonal_charts(df, c, bld) ==
    LET start == copy(df)
        dims == dimension_filters(start, c)
        dated == IF has_date_range(c) THEN between_dates(dims, c.date_range) ELSE dims
        numbered ==
            Obj(SetColumn(dated.df, "Month_Num",
                          dt_field(Column(dated.df, "load_end_date"), "month")),
                dated.shared)
        located == /\ c.location_type # ""
                   /\ c.selected_locations # {}
                   /\ c.location_type \in numbered.df.cols
        chosen == IF located THEN isin_rows(numbered, c.location_type, c.selected_locations)
                  ELSE numbered
        by == IF located THEN <<c.location_type, "Month_Num">> ELSE <<"Month_Num">>
        after == IF numbered.shared THEN numbered.df ELSE df
    IN  IF has_date_range(c) /\ (bld.strict_dates \/ ~is_datetime64(df, "load_end_date"))
        THEN ChartResult("seasonal", c, dims.df, dims.df, "raise", {}, df)
        ELSE IF dated.df.rows = <<>>
        THEN ChartResult("seasonal", c, dims.df, dated.df, "empty", {}, df)
        ELSE IF ~is_datetime64(df, "load_end_date")
        THEN ChartResult("seasonal", c, dims.df, dated.df, "raise", {}, df)
        ELSE IF "voy_intake_mt" \notin df.cols
        THEN ChartResult("seasonal", c, dims.df, chosen.df, "raise", {}, after)
        ELSE ChartResult("seasonal", c, dims.df, chosen.df, "done",
                         {[year |-> NaN, by |-> by, groups |-> groupby_sum(chosen.df, by),
                           ranking |-> <<>>]},
                         after)

\* the two builds of the libraries the model distinguishes:
\*   strict_dates   comparing a datetime64 column with datetime.date raises
\*                  TypeError (it compares in older pandas)
\*   ties_reversed  groups of equal sum come out of sort_values in reverse key
\*                  order (the default sort is not stable)
\*   put_encodes    update_file / create_file base64-encode the content they
\*                  are given (PyGithub does)
Build(strict, reversed, encodes) ==
    [strict_dates |-> strict, ties_reversed |-> reversed, put_encodes |-> encodes]
Builds == {Build(FALSE, FALSE, TRUE), Build(TRUE, TRUE, TRUE)}

NoView == ChartResult("none", Criteria({}, {}, {}, {}, "", "", {}, <<>>),
                      Frame({}, <<>>), Frame({}, <<>>), "none", {}, Frame({}, <<>>))

----------------------------------------------------------------------------
\* GitHubDataManager: the two files of the repository, and what the program
\* reads back from them

\* a file is text (body: the document, or the dataset its CSV text reads as),
\* the base64 text of a file, or absent
File(enc, body) == [enc |-> enc, body |-> body]
Absent == File("absent", <<>>)

\* base64.b64encode(text.encode()).decode()
b64encode(f) == File("b64", f)

\* repo.update_file / repo.create_file(content=...): the file GitHub holds
\* afterwards.  PyGithub takes the text of the file and base64-encodes it for
\* the API itself, so the file holds what it was given (here: base64 text); a
\* library that passed its argument on as the API's base64 would store the
\* decoded text.
put_file(content, bld) == IF bld.put_encodes THEN content ELSE content.body

\* the value None, as a taxonomy node and as a dataset
None == [kind |-> "none", items |-> <<>>]
NoData == [none |-> TRUE, df |-> Frame({}, <<>>)]
Data(df) == [none |-> FALSE, df |-> df]

\* the state of the repository: status "ok", "none" (a request fails, the
\* download functions return None), "raise" (an exception leaves
\* download_json_file), and the two files
GitHub(status, hierarchy_file, data_file) ==
    [status |-> status, hierarchy |-> hierarchy_file, data |-> data_file]

\* download_json_file: [raised, value]; json.loads fails on an absent file
\* and on base64 text
download_json_file(gh) ==
    IF gh.status = "raise" THEN [raised |-> TRUE, value |-> None]
    ELSE IF gh.status = "ok" /\ gh.hierarchy.enc = "text"
    THEN [raised |-> FALSE, value |-> gh.hierarchy.body]
    ELSE [raised |-> FALSE, value |-> None]

\* get_default_commodity_hierarchy
get_default_commodity_hierarchy ==
    DictNode(<<[key |-> <<"M", "a", "j", "o", "r", " ", "B", "u", "l", "k", "s">>,
                 value |-> DictNode(<<[key |-> <<"I", "r", "o", "n", " ", "O", "r", "e">>,
                              value |-> ListNode(<<StrV(<<"I", "r", "o", "n", " ", "O", "r", "e">>),
                                         StrV(<<"I", "r", "o", "n", " ", "O", "r", "e", " ", "P", "e", "l", "l", "e", "t", "s">>)>>)],
                            [key |-> <<"C", "o", "a", "l">>,
                              value |-> ListNode(<<StrV(<<"C", "o", "a", "l">>),
                                         StrV(<<"S", "t", "e", "a", "m", " ", "C", "o", "a", "l">>),
                                         StrV(<<"C", "o", "k", "i", "n", "g", " ", "C", "o", "a", "l">>)>>)],
                            [key |-> <<"G", "r", "a", "i", "n">>,
                              value |-> ListNode(<<StrV(<<"G", "r", "a", "i", "n">>),
                                         StrV(<<"W", "h", "e", "a", "t">>),
                                         StrV(<<"C", "o", "r", "n">>),
                                         StrV(<<"S", "o", "y", "b", "e", "a", "n", "s">>)>>)]>>)],
               [key |-> <<"M", "i", "n", "o", "r", " ", "B", "u", "l", "k", "s">>,
                 value |-> DictNode(<<[key |-> <<"S", "t", "e", "e", "l", " ", "P", "r", "o", "d", "u", "c", "t", "s">>,
                              value |-> ListNode(<<StrV(<<"S", "t", "e", "e", "l">>),
                                         StrV(<<"S", "t", "e", "e", "l", " ", "C", "o", "i", "l", "s">>),
                                         StrV(<<"S", "t", "e", "e", "l", " ", "B", "i", "l", "l", "e", "t", "s">>)>>)],
                            [key |-> <<"F", "e", "r", "t", "i", "l", "i", "z", "e", "r", "s">>,
                              value |-> ListNode(<<StrV(<<"F", "e", "r", "t", "i", "l", "i", "z", "e", "r", "s">>),
                                         StrV(<<"U", "r", "e", "a">>),
                                         StrV(<<"D", "A", "P">>),
                                         StrV(<<"M", "O", "P">>)>>)]>>)]>>)

\* `if commodity_hierarchy:` : a non-empty object or list
truthy(node) == node.kind \in {"dict", "list"} /\ node.items # <<>>

\* mutant: what the download returned is handed on
load_commodity_hierarchy_unguarded(gh) == download_json_file(gh).value

load_commodity_hierarchy(gh) ==
    LET r == download_json_file(gh)
    IN  IF r.raised THEN get_default_commodity_hierarchy
        ELSE IF truthy(r.value) THEN r.value
        ELSE get_default_commodity_hierarchy

\* upload_json_file: json.dumps, b64encode, update_file; True
upload_json_file(gh, doc, bld) ==
    [gh EXCEPT !.hierarchy = put_file(b64encode(File("text", doc)), bld)]

\* the strings pd.read_csv takes for a missing value
NAStrings == {<<>>, <<"n", "a", "n">>, <<"N", "a", "N">>, <<"n", "/", "a">>, <<"N", "A">>}

\* the digits of a number of a date, as parse_iso reads them
date_digits(n) == CHOOSE t \in DOMAIN Digits : Digits[t] = n

\* df.to_csv(index=False): the field a cell is written as
csv_field(v) ==
    CASE v.t \in {"nan", "nat"} -> [kind |-> "empty", n |-> 0, s |-> <<>>]
      [] v.t = "int" -> [kind |-> "int", n |-> v.n, s |-> <<>>]
      [] v.t = "float" -> [kind |-> "float", n |-> v.n, s |-> <<>>]
      [] v.t = "datetime" ->
            [kind |-> "text", n |-> 0,
             s |-> <<date_digits(year_of(v)), "-", date_digits(month_of(v)), "-",
                     date_digits(v.n % 100)>>]
      [] v.t = "str" ->
            IF v.s \in NAStrings THEN [kind |-> "empty", n |-> 0, s |-> <<>>]
            ELSE [kind |-> "text", n |-> 0, s |-> v.s]

\* pd.read_csv(to_csv text): a column of whole numbers without a gap is int64,
\* a column of numbers float64 (a gap is NaN), any other column holds the
\* fields as strings (a gap is NaN); dates are not parsed.  The strings of the
\* model are no numerals.
read_csv(df) ==
    LET kinds(c) == {csv_field(df.rows[i][c]).kind : i \in DOMAIN df.rows}
        cell(c, v) ==
            LET f == csv_field(v)
            IN  IF kinds(c) \subseteq {"int", "float", "empty"}
                THEN IF f.kind = "empty" THEN NaN
                     ELSE IF kinds(c) = {"int"} THEN IntV(f.n)
                     ELSE FloatV(f.n)
                ELSE CASE f.kind = "empty" -> NaN
                       [] f.kind = "int" -> StrV(<<ToString(f.n)>>)
                       [] f.kind = "float" -> StrV(<<ToString(f.n), ".", "0">>)
                       [] f.kind = "text" -> StrV(f.s)
    IN  Frame(df.cols, [i \in DOMAIN df.rows |-> [c \in df.cols |-> cell(c, df.rows[i][c])]])

\* pd.read_csv of a file that holds base64 text: one line, read as the header
\* of a single column; no rows
Unreadable == Frame({"<base64>"}, <<>>)

\* download_data: None when the request fails or the file is absent
download_data(gh) ==
    IF gh.status # "ok" \/ gh.data.enc = "absent" THEN NoData
    ELSE IF gh.data.enc = "b64" THEN Data(Unreadable)
    ELSE Data(gh.data.body)

\* upload_data: to_csv, b64encode, update_file; True
upload_data(gh, df, bld) ==
    [gh EXCEPT !.data = put_file(b64encode(File("text", read_csv(df))), bld)]

\* the body of load_and_process_data: [result, github] - what it returns (None
\* when the download or the processing failed) and the repository afterwards
\* what a run of the body of load_and_process_data did: the value returned, the
\* repository afterwards, what download_data gave, what
\* check_and_generate_fields returned, whether upload_data returned True
Loaded(result, gh, got, st, uploaded) ==
    [result |-> result, github |-> gh, got |-> got, st |-> st, uploaded |-> uploaded]

\* after check_and_generate_fields: `if modified:` upload_data; return df
save_if_modified(gh, got, st, bld) ==
    IF st.raised THEN Loaded(NoData, gh, got, st, FALSE)
    ELSE IF st.modified
    THEN Loaded(Data(st.df), upload_data(gh, st.df, bld), got, st, TRUE)
    ELSE Loaded(Data(st.df), gh, got, st, FALSE)

\* after download_data: None when it gave None, else generate
process_downloaded(gh, got, mapping, bld) ==
    IF got.none THEN Loaded(NoData, gh, got, Carry(got.df, FALSE, FALSE, FALSE), FALSE)
    ELSE save_if_modified(gh, got, check_and_generate_fields(got.df, mapping), bld)

\* mutant: the dataset is saved back whether or not it was modified
load_and_process_data_always_saves(gh, mapping, bld) ==
    LET r == process_downloaded(gh, download_data(gh), mapping, bld)
    IN  IF r.result.none \/ r.uploaded THEN r
        ELSE Loaded(r.result, upload_data(gh, r.result.df, bld), r.got, r.st, TRUE)

\* the body of load_and_process_data (None when the download or the
\* processing failed)
load_and_process_data(gh, mapping, bld) ==
    process_downloaded(gh, download_data(gh), mapping, bld)

\* the values of the variables of the session before the program ran
NoGitHub == GitHub("ok", Absent, Absent)
NoSession == [loaded |-> FALSE, from |-> NoGitHub]
Served(mapping, result, ran, uploaded) ==
    [mapping |-> mapping, none |-> result.none, df |-> result.df,
     ran |-> ran, uploaded |-> uploaded]
NoServed == Served(<<>>, NoData, FALSE, FALSE)
Persisted(done, mapping, file) == [done |-> done, mapping |-> mapping, data |-> file]
NoUpload == Persisted(FALSE, <<>>, Absent)

\* the pipeline and the charts run without the repository
Offline ==
    /\ github = NoGitHub
    /\ session = NoSession
    /\ cache = <<>>
    /\ served = NoServed
    /\ persisted = NoUpload

----------------------------------------------------------------------------
\* The inputs of the model: taxonomy documents and raw datasets

SeqsUpTo(S, n) == UNION {[1..k -> S] : k \in 0..n}

\* leaf terms and category names
TermA == StrV(<<"a">>)
TermAb == StrV(<<"A", "b">>)
LeafTerms == {TermA, TermAb}
RootNames == {<<"X">>, <<"Y">>}
LevelName(d) == <<"N", ToString(d)>>

ListNodes == {ListNode(l) : l \in SeqsUpTo(LeafTerms, MaxLeaves)}

\* a branch of at most d nested single-category objects ending in a terminal
\* list (or in an empty object); the category at nesting depth k is LevelName(k)
RECURSIVE Chains(_, _)
Chains(k, d) ==
    ListNodes \cup {DictNode(<<>>)} \cup
    (IF d = 0 THEN {}
     ELSE {DictNode(<<[key |-> LevelName(k), value |-> c]>>) : c \in Chains(k + 1, d - 1)})

\* a root object of at most two categories
RootsOver(children) ==
    {DictNode(<<>>)} \cup
    {DictNode(<<[key |-> n, value |-> c]>>) : n \in RootNames, c \in children} \cup
    UNION {{DictNode(<<[key |-> p[1], value |-> c1], [key |-> p[2], value |-> c2]>>) :
               c1 \in children, c2 \in children} :
           p \in {q \in RootNames \X RootNames : q[1] # q[2]}}

DeepTaxonomies == ListNodes \cup RootsOver(Chains(2, MaxDepth))
FlatTaxonomies == RootsOver(ListNodes)

EmptyTaxonomy == DictNode(<<>>)
SmallTaxonomy ==
    DictNode(<<[key |-> <<"X">>,
                value |-> DictNode(<<[key |-> <<"Y">>,
                                      value |-> ListNode(<<TermAb, TermA>>)]>>)]>>)

RawCols == {"voyage_type", "vsl_dwt", "load_end_date", "commodity"}
Columns == RawCols \cup {"vessel_dwt_type"} \cup DateFields \cup CommodityFields

\* the cell a derived column holds when the raw dataset already has it
Given(c) ==
    CASE c = "vessel_dwt_type" -> StrV(<<"Capesize">>)
      [] c = "Year" -> IntV(1999)
      [] c = "Quarter" -> StrV(<<"Q", "4">>)
      [] c = "Month" -> StrV(<<"M", "12">>)
      [] OTHER -> StrV(<<"Given">>)

\* a row over all columns, and its restriction to the columns of a dataset
FullRow(voy, dwt, date, com) ==
    [c \in Columns |->
        CASE c = "voyage_type" -> voy
          [] c = "vsl_dwt" -> dwt
          [] c = "load_end_date" -> date
          [] c = "commodity" -> com
          [] OTHER -> Given(c)]
Restrict(row, cols) == [c \in cols |-> row[c]]

\* the dataset of the given columns whose rows are those of rs
Dataset(cols, rs) == Frame(cols, [i \in DOMAIN rs |-> Restrict(rs[i], cols)])

Date(y, m, d) == StrV(<<y, "-", m, "-", d>>)
Garbage == StrV(<<"n", "/", "a">>)
GoodDate == Date("2023", "02", "15")
GoodRow == FullRow(laden, IntV(70000), GoodDate, TermAb)

VoyageVals == {laden, StrV(<<"L", "a", "d", "e", "n">>), StrV(<<"b", "a", "l", "l", "a", "s", "t">>), NaN}
DwtVals ==
    {NaN, StrV(<<"a", "b", "c">>), IntV(-1), IntV(0),
     IntV(SUPRAMAX_MIN - 1), IntV(SUPRAMAX_MIN), IntV(PANAMAX_MIN - 1), FloatV(PANAMAX_MIN),
     IntV(CAPESIZE_MIN - 1), IntV(CAPESIZE_MIN), IntV(VLOC_MIN - 1), FloatV(VLOC_MIN)}
DateVals ==
    {NaN, Garbage, GoodDate, Date("2023", "13", "01"), Date("2023", "02", "30"),
     Date("2024", "12", "31"), Timestamp(20240701)}
CommodityVals ==
    {NaN, TermA, TermAb, StrV(<<"A", "B">>), StrV(<<"b", "a">>), StrV(<<"c">>), IntV(7)}

\* rows of the general family: a clean laden row, a row the voyage filter
\* drops, a laden row of missing values, a laden row of malformed values
PoolRows ==
    {GoodRow,
     FullRow(StrV(<<"L", "a", "d", "e", "n">>), IntV(VLOC_MIN), Date("2024", "12", "31"), TermA),
     FullRow(laden, NaN, NaN, NaN),
     FullRow(laden, StrV(<<"a", "b", "c">>), Garbage, IntV(7))}

Derived == {"vessel_dwt_type"} \cup DateFields \cup CommodityFields
WithSubsets(base, optional) == {base \cup o : o \in SUBSET optional}

GeneralColSets ==
    {r \cup v \cup d \cup c :
        r \in SUBSET RawCols, v \in SUBSET {"vessel_dwt_type"},
        d \in {{}, {"Year"}, DateFields},
        c \in {{}, {"commodity_type_1level"}, CommodityFields}}

----------------------------------------------------------------------------
\* The state machine

NoFrame == Frame({}, <<>>)
Returned(df, modified, raised) == [df |-> df, modified |-> modified, raised |-> raised]

\* the state before anything ran, for taxonomy document h and raw dataset df
Start(h, df) ==
    /\ hierarchy = h
    /\ commodity_mapping = <<>>
    /\ raw = df
    /\ raw0 = df
    /\ arg = NoFrame
    /\ ret = Returned(NoFrame, FALSE, FALSE)
    /\ aliased = FALSE
    /\ pc = "start"

VoyageRows == {FullRow(v, NaN, NaN, NaN) : v \in VoyageVals}
DwtRows == {FullRow(laden, v, NaN, NaN) : v \in DwtVals}
DateRows == {FullRow(laden, NaN, v, NaN) : v \in DateVals}

\* the inputs are drawn from families, each wide in one direction
GeneralInit ==
    \E h \in {EmptyTaxonomy, SmallTaxonomy}, cols \in GeneralColSets,
       rs \in SeqsUpTo(PoolRows, MaxRows) : Start(h, Dataset(cols, rs))
VoyageInit ==
    \E cols \in {{"voyage_type"}, {"voyage_type"} \cup Derived},
       rs \in SeqsUpTo(VoyageRows, MaxRows) : Start(SmallTaxonomy, Dataset(cols, rs))
DwtInit ==
    \E cols \in WithSubsets({"vsl_dwt"}, {"vessel_dwt_type"}),
       rs \in SeqsUpTo(DwtRows, MaxRows) : Start(SmallTaxonomy, Dataset(cols, rs))
DateInit ==
    \E cols \in WithSubsets({"load_end_date"}, DateFields),
       rs \in SeqsUpTo(DateRows, MaxRows) : Start(SmallTaxonomy, Dataset(cols, rs))
CommodityInit ==
    \E h \in FlatTaxonomies, v \in CommodityVals,
       cols \in WithSubsets({"commodity"}, CommodityFields) :
        Start(h, Dataset(cols, <<FullRow(laden, NaN, NaN, v)>>))
TaxonomyInit ==
    \E h \in DeepTaxonomies : Start(h, Dataset(RawCols, <<GoodRow>>))

Init ==
    /\ \/ GeneralInit
       \/ VoyageInit
       \/ DwtInit
       \/ DateInit
       \/ CommodityInit
       \/ TaxonomyInit
    /\ view = NoView
    /\ build = Build(FALSE, FALSE, TRUE)
    /\ Offline

\* commodity_mapping = build_commodity_mapping(commodity_hierarchy)
BuildMapping ==
    /\ pc = "start"
    /\ commodity_mapping' = build_commodity_mapping(hierarchy)
    /\ pc' = "mapped"
    /\ UNCHANGED <<hierarchy, raw, raw0, arg, ret, aliased, view, build, storage>>

\* df, modified = check_and_generate_fields(df, commodity_mapping): the first
\* call on the caller's dataset, a later call on the dataset the previous call
\* returned.  A rule that did not copy works on the object it was given.
Generate ==
    /\ pc \in {"mapped", "generated"}
    /\ ~ret.raised
    /\ LET first == pc = "mapped"
           onRaw == first \/ aliased
           df == IF first THEN raw ELSE ret.df
           st == check_and_generate_fields(df, commodity_mapping)
       IN  /\ arg' = df
           /\ ret' = IF st.raised THEN Returned(NoFrame, FALSE, TRUE)
                     ELSE Returned(st.df, st.modified, FALSE)
           /\ raw' = IF onRaw /\ ~st.copied THEN st.df ELSE raw
           /\ aliased' = (onRaw /\ ~st.copied /\ ~st.raised)
    /\ pc' = "generated"
    /\ UNCHANGED <<hierarchy, commodity_mapping, raw0, view, build, storage>>

Next == BuildMapping \/ Generate

Spec == Init /\ [][Next]_vars

----------------------------------------------------------------------------
\* The dashboard: sidebar criteria and the three chart tabs

\* the taxonomy of the chart families: {"X": {"Y": {"P": ["a"], "Q": ["c"]}}}
ChartTaxonomy ==
    DictNode(<<[key |-> <<"X">>,
                value |-> DictNode(<<[key |-> <<"Y">>,
                                      value |-> DictNode(<<[key |-> <<"P">>,
                                                            value |-> ListNode(<<TermA>>)],
                                                           [key |-> <<"Q">>,
                                                            value |-> ListNode(<<StrV(<<"c">>)>>)]>>)]>>)]>>)

\* datasets of the chart families
MaxChartRows == 2   \* rows of a dataset of the chart family

ChartCols == RawCols \cup LocationFields \cup {"voy_intake_mt"}
Place(name) == StrV(<<name>>)
ChartRow(dwt, date, com, lz, dz, lc, dc, mt) ==
    [c \in ChartCols |->
        CASE c = "voyage_type" -> laden
          [] c = "vsl_dwt" -> dwt
          [] c = "load_end_date" -> date
          [] c = "commodity" -> com
          [] c = "load_zone" -> lz
          [] c = "discharge_zone" -> dz
          [] c = "load_country" -> lc
          [] c = "discharge_country" -> dc
          [] c = "voy_intake_mt" -> mt]

\* two voyages of one year that tie, a voyage of another year without a
\* measure, a voyage without date and load place, a second voyage of a group
ChartPool ==
    <<ChartRow(IntV(VLOC_MIN), Date("2023", "02", "15"), TermA,
               Place("Z01"), Place("Z02"), Place("K1"), Place("K2"), IntV(5)),
      ChartRow(IntV(PANAMAX_MIN), Date("2023", "07", "15"), StrV(<<"c">>),
               Place("Z02"), Place("Z01"), Place("K2"), Place("K1"), IntV(5)),
      ChartRow(IntV(VLOC_MIN), Date("2024", "02", "15"), TermA,
               Place("Z01"), Place("Z02"), Place("K1"), Place("K2"), NaN),
      ChartRow(IntV(PANAMAX_MIN), NaN, NaN,
               NaN, Place("Z01"), NaN, Place("K1"), IntV(2)),
      ChartRow(IntV(VLOC_MIN), Date("2023", "02", "01"), TermA,
               Place("Z01"), Place("Z02"), Place("K1"), Place("K2"), IntV(3))>>

\* the rows of pool at the indexes of I, in the order of pool
Pick(pool, I) ==
    [j \in 1..Cardinality(I) |->
        pool[CHOOSE i \in I : Cardinality({k \in I : k <= i}) = j]]
ChartDatasets ==
    {Frame(ChartCols, Pick(ChartPool, I)) :
        I \in {J \in SUBSET DOMAIN ChartPool : Cardinality(J) \in 1..MaxChartRows}}

\* a dataset without the load_end_date column
UndatedDataset == Dataset(ChartCols \ {"load_end_date"}, <<ChartPool[1], ChartPool[2]>>)

\* one year with more load zones than a ranking shows, all of different volume
RankRows(a) ==
    [i \in 1..(TOP_N + 1) |->
        ChartRow(IntV(VLOC_MIN), GoodDate, TermA,
                 Place(PlaceOrder[i + 2]), Place("Z01"), Place("K1"), Place("K2"),
                 IntV((i * a) % 13))]
RankDatasets == {Frame(ChartCols, RankRows(a)) : a \in {1, 5}}

\* sorted(df[col].dropna().unique().tolist()) : the options of a multiselect
options(df, col) == {v \in {df.rows[i][col] : i \in DOMAIN df.rows} : ~isna(v)}

\* the columns main reads before it calls a chart function
SidebarFields == {"vessel_dwt_type", "commodity_type_1level"} \cup LocationFields

\* main reaches the chart tabs: the dataset was returned, the sidebar found
\* its columns, and min_date.date() worked (load_end_date absent, or a
\* datetime column with a date in it)
reaches_charts ==
    /\ pc \in {"generated", "charted"}
    /\ ~ret.raised
    /\ SidebarFields \subseteq ret.df.cols
    /\ "load_end_date" \in ret.df.cols =>
           /\ is_datetime64(ret.df, "load_end_date")
           /\ \E i \in DOMAIN ret.df.rows : ret.df.rows[i]["load_end_date"].t = "datetime"

\* the selections of the three cascading commodity multiselects: none, a
\* first level, or one value on each level
level_selections(df) ==
    {<<{}, {}, {}>>} \cup
    {<<{a}, {}, {}>> : a \in options(df, "commodity_type_1level")} \cup
    IF CommodityFields \subseteq df.cols
    THEN UNION {UNION {{<<{a}, {b}, {d}>> :
                          d \in options(isin_rows(Obj(df, TRUE), "commodity_type_2level", {b}).df,
                                        "commodity_type_3level")} :
                      b \in options(isin_rows(Obj(df, TRUE), "commodity_type_1level", {a}).df,
                                    "commodity_type_2level")} :
                a \in options(df, "commodity_type_1level")}
    ELSE {}

\* the selections of a location multiselect: none or one place
location_selections(df, col) == {{}} \cup {{v} : v \in options(df, col)}

\* st.date_input(value=[min_date, max_date], ...): no range when the column is
\* absent, else the whole range, one day, or a selection still open (one date)
date_selections(df) ==
    IF "load_end_date" \notin df.cols THEN {<<>>}
    ELSE LET days == {df.rows[i]["load_end_date"].n :
                         i \in {j \in DOMAIN df.rows : df.rows[j]["load_end_date"].t = "datetime"}}
             lo == CHOOSE d \in days : \A e \in days : d <= e
             hi == CHOOSE d \in days : \A e \in days : d >= e
         IN  {<<lo, hi>>, <<hi, hi>>, <<lo>>}

\* the effect of a chart call on the state: what it did, and the caller's
\* dataset afterwards
Shows(res) ==
    /\ view' = res
    /\ ret' = [ret EXCEPT !.df = res.after]
    /\ raw' = IF aliased THEN res.after ELSE raw
    /\ pc' = "charted"
    /\ UNCHANGED <<hierarchy, commodity_mapping, raw0, arg, aliased, build, storage>>

\* tab "trade flow": the loading and discharging analyses are called once a
\* load zone, a discharge zone, is selected in the sidebar
TradeFlow ==
    /\ pc = "generated"
    /\ reaches_charts
    /\ \E vessel \in SUBSET options(ret.df, "vessel_dwt_type"),
          lv \in level_selections(ret.df),
          analysis \in {"overall", "loading", "discharging"},
          dates \in date_selections(ret.df) :
        /\ analysis = "loading" => options(ret.df, "load_zone") # {}
        /\ analysis = "discharging" => options(ret.df, "discharge_zone") # {}
        /\ Shows(create_trade_flow_charts(
                     ret.df, Criteria(vessel, lv[1], lv[2], lv[3], analysis, "", {}, dates),
                     build))

\* tab "time series"
TimeSeries ==
    /\ pc = "generated"
    /\ reaches_charts
    /\ \E vessel \in SUBSET options(ret.df, "vessel_dwt_type"),
          lv \in level_selections(ret.df),
          loc \in LocationFields,
          dates \in date_selections(ret.df) :
        \E selected \in location_selections(ret.df, loc) :
            Shows(create_time_series_charts(
                      ret.df, Criteria(vessel, lv[1], lv[2], lv[3], "", loc, selected, dates),
                      build))

\* tab "seasonal": overall, or by load / discharge country once one is selected
Seasonal ==
    /\ pc = "generated"
    /\ reaches_charts
    /\ \E vessel \in SUBSET options(ret.df, "vessel_dwt_type"),
          lv \in level_selections(ret.df),
          loc \in {"", "load_country", "discharge_country"},
          dates \in date_selections(ret.df) :
        \E selected \in IF loc = "" THEN {{}}
                        ELSE location_selections(ret.df, loc) \ {{}} :
            Shows(create_seasonal_charts(
                      ret.df, Criteria(vessel, lv[1], lv[2], lv[3], "", loc, selected, dates),
                      build))

\* the script runs again with the widgets unchanged: the chart function is
\* called again with the same criteria
Rerun ==
    /\ pc = "charted"
    /\ reaches_charts
    /\ Shows(CASE view.kind = "trade_flow" ->
                   create_trade_flow_charts(ret.df, view.criteria, build)
                [] view.kind = "time_series" ->
                   create_time_series_charts(ret.df, view.criteria, build)
                [] view.kind = "seasonal" ->
                   create_seasonal_charts(ret.df, view.criteria, build))

ChartInit ==
    /\ \E df \in ChartDatasets \cup {UndatedDataset} \cup RankDatasets :
           Start(ChartTaxonomy, df)
    /\ view = NoView
    /\ build \in Builds
    /\ Offline

ChartNext == BuildMapping \/ Generate \/ TradeFlow \/ TimeSeries \/ Seasonal \/ Rerun

ChartSpec == ChartInit /\ [][ChartNext]_vars

----------------------------------------------------------------------------
\* The session: taxonomy in st.session_state, the cached load_and_process_data,
\* the taxonomy editor

\* the stored raw datasets of the session family, as read_csv returns them
SessionRows ==
    {[c \in RawCols |-> FullRow(laden, IntV(PANAMAX_MIN), GoodDate, TermA)[c]],
     [c \in RawCols |-> FullRow(laden, IntV(VLOC_MIN), Date("2024", "12", "31"), StrV(<<"c">>))[c]],
     [c \in RawCols |-> FullRow(laden, NaN, Date("2023", "02", "30"), NaN)[c]],
     [c \in RawCols |-> FullRow(StrV(<<"b", "a", "l", "l", "a", "s", "t">>), IntV(0), NaN, TermA)[c]]}
SessionDatasets == {Frame(RawCols, rs) : rs \in SeqsUpTo(SessionRows, MaxRows)}

\* the taxonomy documents stored or uploaded
SessionTaxonomies == {SmallTaxonomy, ChartTaxonomy}

\* the state before the first run of a session
SessionStart(gh, bld) ==
    /\ github = gh
    /\ build = bld
    /\ session = NoSession
    /\ cache = <<>>
    /\ served = NoServed
    /\ persisted = NoUpload
    /\ hierarchy = None
    /\ commodity_mapping = <<>>
    /\ raw = NoFrame
    /\ raw0 = gh.data.body
    /\ arg = NoFrame
    /\ ret = Returned(NoFrame, FALSE, FALSE)
    /\ aliased = FALSE
    /\ view = NoView
    /\ pc = "rerun"

SessionInit ==
    \E status \in {"ok", "none", "raise"},
       hfile \in {Absent, File("text", EmptyTaxonomy)} \cup
                 {File("text", h) : h \in SessionTaxonomies},
       df \in SessionDatasets,
       encodes \in BOOLEAN :
        SessionStart(GitHub(status, hfile, File("text", df)), Build(FALSE, FALSE, encodes))

\* line 883 when the cache holds no entry for the mapping: the body runs
ServeRun(m, run) ==
    /\ github' = run.github
    /\ cache' = DictSet(cache, m, run.result)
    /\ served' = Served(m, run.result, TRUE, run.uploaded)
    /\ persisted' = IF run.uploaded THEN Persisted(TRUE, m, run.github.data) ELSE persisted
    /\ arg' = IF run.got.none THEN arg ELSE run.got.df
    /\ ret' = IF run.got.none THEN ret ELSE Returned(run.st.df, run.st.modified, run.st.raised)

\* line 883 when the cache holds an entry for the mapping
ServeCached(m, result) ==
    /\ served' = Served(m, result, FALSE, FALSE)
    /\ UNCHANGED <<github, cache, persisted, arg, ret>>

\* lines 872-883 with the taxonomy h and its mapping m
Dashboard(h, m, snapshot) ==
    /\ hierarchy' = h
    /\ commodity_mapping' = m
    /\ session' = snapshot
    /\ IF DictHas(cache, m)
       THEN ServeCached(m, DictGet(cache, m))
       ELSE ServeRun(m, load_and_process_data(github, m, build))

\* lines 874-875: the taxonomy is loaded and flattened
LoadAndFlatten(h) ==
    Dashboard(h, build_commodity_mapping(h), [loaded |-> TRUE, from |-> github])

\* one run of the script through the dashboard tab: the taxonomy is loaded and
\* flattened once per session and kept in st.session_state; the dataset comes
\* from the cache of load_and_process_data when it holds an entry for the
\* mapping (st.cache_data keeps a returned None as well)
RunDashboard ==
    /\ pc \in {"rerun", "served"}
    /\ IF session.loaded
       THEN Dashboard(hierarchy, commodity_mapping, session)
       ELSE LoadAndFlatten(load_commodity_hierarchy(github))
    /\ pc' = "served"
    /\ UNCHANGED <<raw, raw0, aliased, view, build>>

\* the taxonomy tab: a document is uploaded and saved; st.cache_data.clear()
\* and st.rerun().  (An empty document is not saved: `if new_hierarchy`.)
SaveHierarchy ==
    /\ pc \in {"rerun", "served"}
    /\ github.status = "ok"
    /\ \E new \in SessionTaxonomies :
           github' = upload_json_file(github, new, build)
    /\ cache' = <<>>
    /\ pc' = "rerun"
    /\ UNCHANGED <<hierarchy, commodity_mapping, session, served, persisted,
                   raw, raw0, arg, ret, aliased, view, build>>

\* the button "reload data" (or the expiry of the cache entries)
ReloadData ==
    /\ pc = "served"
    /\ cache # <<>>
    /\ cache' = <<>>
    /\ pc' = "rerun"
    /\ UNCHANGED <<hierarchy, commodity_mapping, session, served, persisted, github,
                   raw, raw0, arg, ret, aliased, view, build>>

\* a new browser session: st.session_state starts empty, the cache is shared
NewSession ==
    /\ pc = "served"
    /\ session.loaded
    /\ session' = NoSession
    /\ hierarchy' = None
    /\ commodity_mapping' = <<>>
    /\ pc' = "rerun"
    /\ UNCHANGED <<served, persisted, github, cache,
                   raw, raw0, arg, ret, aliased, view, build>>

SessionNext == RunDashboard \/ SaveHierarchy \/ ReloadData \/ NewSession

SessionSpec == SessionInit /\ [][SessionNext]_vars

----------------------------------------------------------------------------
\* Vocabulary of the properties

\* a call of check_and_generate_fields has returned (it did not raise)
HasReturned == pc = "generated" /\ ~ret.raised

\* the rows of df whose voyage_type is exactly 'laden' (all rows of a dataset
\* without that column)
ExactlyLaden(row) == row["voyage_type"] = StrV(<<"l", "a", "d", "e", "n">>)
PassLaden(df) ==
    IF "voyage_type" \in df.cols THEN SelectSeq(df.rows, ExactlyLaden) ELSE df.rows

\* the last call wrote the column c / dropped rows
Wrote(c) == c \notin arg.cols /\ c \in ret.df.cols
DroppedRows == Len(ret.df.rows) < Len(arg.rows)

\* the commodity rule acted in the last call
ClassifiedNow == \E c \in CommodityFields : Wrote(c)

----------------------------------------------------------------------------
\* C1: generate is idempotent: a call on the dataset a previous call returned,
\* with the same mapping, returns, reports changed = false and returns a
\* dataset with the rows and columns of its input.
C1_Idempotent ==
    [][(pc = "generated" /\ ~ret.raised /\ pc' = "generated")
        => (~ret'.raised /\ ~ret'.modified /\ ret'.df = ret.df)]_vars

\* a second call has returned, on the output of a first call that had dropped
\* a row and written columns
C1_Witness ==
    /\ HasReturned
    /\ arg = ret.df
    /\ ~ret.modified
    /\ Len(raw0.rows) > Len(ret.df.rows)
    /\ raw0.cols # ret.df.cols

\* C2 (as claimed): after generate every surviving record has every derived
\* field present and populated.
C2_AllDerivedPopulated ==
    HasReturned =>
        \A i \in DOMAIN ret.df.rows : \A c \in Derived :
            c \in ret.df.cols /\ ~isna(ret.df.rows[i][c])

\* C3 (as claimed): generate never mutates its input: the caller's dataset
\* object keeps the content it had before the call.
C3_InputNotMutated == raw = raw0

\* C4 (as claimed): whatever the values of its rows, a call on a dataset with
\* at least one laden row completes without raising and returns one record per
\* input record that passes the laden filter.
C4_NoRaiseNoDrop ==
    (pc = "generated" /\ Len(PassLaden(arg)) > 0) =>
        /\ ~ret.raised
        /\ Len(ret.df.rows) = Len(PassLaden(arg))

\* the raw columns a call leaves as they are (load_end_date may be coerced)
KeptCols(df) == (RawCols \ {"load_end_date"}) \cap df.cols

\* C5: the output holds exactly the input rows whose voyage_type is 'laden'
\* (all rows when there is no such column), in input order; and when no column
\* is written, changed is true exactly when a row was dropped, a dropped row
\* always making changed true.
C5_VoyageFilter ==
    HasReturned =>
        LET expected == PassLaden(arg)
        IN  /\ Len(ret.df.rows) = Len(expected)
            /\ \A i \in DOMAIN expected :
                   /\ Restrict(ret.df.rows[i], KeptCols(arg)) = Restrict(expected[i], KeptCols(arg))
                   /\ "load_end_date" \in arg.cols =>
                          ret.df.rows[i]["load_end_date"] \in
                              {expected[i]["load_end_date"], to_datetime(expected[i]["load_end_date"])}
            /\ DroppedRows => ret.modified
            /\ (ret.df.cols = arg.cols) => (ret.modified <=> DroppedRows)

\* a call has dropped a row whose voyage_type is not exactly 'laden' and kept
\* a laden row
C5_Witness ==
    /\ HasReturned
    /\ "voyage_type" \in arg.cols
    /\ DroppedRows
    /\ \E i \in DOMAIN arg.rows : arg.rows[i]["voyage_type"] # laden
    /\ Len(ret.df.rows) > 0

\* the triple the claimed precedence gives a commodity under a mapping
FirstPartial(commodity, mapping) ==
    {i \in DOMAIN mapping :
        /\ mapping[i].key.t = "str"
        /\ Contains(lower(commodity.s), lower(mapping[i].key.s))
        /\ \A j \in 1..(i - 1) :
               ~(mapping[j].key.t = "str"
                 /\ Contains(lower(commodity.s), lower(mapping[j].key.s)))}
ClaimedLevels(commodity, mapping) ==
    IF commodity.t \in {"nan", "nat"} THEN <<Unknown, Unknown, Unknown>>
    ELSE IF \E i \in DOMAIN mapping : mapping[i].key = commodity
    THEN mapping[CHOOSE i \in DOMAIN mapping : mapping[i].key = commodity].value
    ELSE IF FirstPartial(commodity, mapping) # {}
    THEN mapping[CHOOSE i \in FirstPartial(commodity, mapping) : TRUE].value
    ELSE <<Unknown, Unknown, Unknown>>

\* C6: when the commodity rule acts, each row's triple is Unknown x3 for a null
\* commodity, else the triple of the exact key, else the triple of the first
\* key in insertion order that is a case-insensitive substring, else Unknown x3.
C6_ClassificationPrecedence ==
    (HasReturned /\ ClassifiedNow) =>
        \A i \in DOMAIN ret.df.rows :
            LET row == ret.df.rows[i]
            IN  <<row["commodity_type_1level"], row["commodity_type_2level"],
                  row["commodity_type_3level"]>>
                = ClaimedLevels(row["commodity"], commodity_mapping)

\* a row was classified by its exact key although an earlier key of the
\* mapping, with another triple, is a substring of it
C6_Witness ==
    /\ HasReturned /\ ClassifiedNow
    /\ \E i \in DOMAIN ret.df.rows, j \in DOMAIN commodity_mapping, k \in DOMAIN commodity_mapping :
           LET com == ret.df.rows[i]["commodity"]
           IN  /\ com.t = "str"
               /\ k < j
               /\ commodity_mapping[j].key = com
               /\ Contains(lower(com.s), lower(commodity_mapping[k].key.s))
               /\ commodity_mapping[k].value # commodity_mapping[j].value
               /\ ret.df.rows[i]["commodity_type_1level"] = commodity_mapping[j].value[1]

\* the size class the claim gives a deadweight
ClaimedBucket(dwt) ==
    IF dwt.t \in {"nan", "nat"} THEN StrV(<<"Unknown">>)
    ELSE IF dwt.n >= 200000 THEN StrV(<<"VLOC">>)
    ELSE IF dwt.n \in 100000..199999 THEN StrV(<<"Capesize">>)
    ELSE IF dwt.n \in 65000..99999 THEN StrV(<<"Panamax/Kamsarmax">>)
    ELSE IF dwt.n \in 40000..64999 THEN StrV(<<"Supramax/Ultramax">>)
    ELSE StrV(<<"Handysize">>)

\* C7: when vessel_dwt_type is absent and vsl_dwt present, every row gets the
\* size class of its vsl_dwt (inclusive lower bounds, Unknown when missing);
\* when vessel_dwt_type is present it is left as it was.
C7_DwtBucketing ==
    HasReturned =>
        /\ ("vessel_dwt_type" \notin arg.cols /\ "vsl_dwt" \in arg.cols) =>
               /\ "vessel_dwt_type" \in ret.df.cols
               /\ \A i \in DOMAIN ret.df.rows :
                      ret.df.rows[i]["vessel_dwt_type"] = ClaimedBucket(ret.df.rows[i]["vsl_dwt"])
        /\ "vessel_dwt_type" \in arg.cols =>
               \A i \in DOMAIN ret.df.rows :
                   ret.df.rows[i]["vessel_dwt_type"] = PassLaden(arg)[i]["vessel_dwt_type"]

\* a call has bucketed a row just below and a row on a threshold
C7_Witness ==
    /\ HasReturned /\ Wrote("vessel_dwt_type")
    /\ \E i, j \in DOMAIN ret.df.rows :
           /\ ret.df.rows[i]["vsl_dwt"].n = 199999
           /\ ret.df.rows[i]["vessel_dwt_type"] = StrV(<<"Capesize">>)
           /\ ret.df.rows[j]["vsl_dwt"].n = 200000
           /\ ret.df.rows[j]["vessel_dwt_type"] = StrV(<<"VLOC">>)

\* C8 (as claimed): with load_end_date present, each of Year, Quarter, Month is
\* written only if absent and left alone if present; for a row with a valid
\* date the written values are the calendar year, "Q" + quarter, "M" + month.
C8_DateDecomposition ==
    (HasReturned /\ "load_end_date" \in arg.cols) =>
        \A i \in DOMAIN ret.df.rows :
            LET row == ret.df.rows[i]
                old == PassLaden(arg)[i]
                date == to_datetime(old["load_end_date"])
                y == date.n \div 10000
                m == (date.n \div 100) % 100
            IN  /\ \A c \in DateFields \cap arg.cols : row[c] = old[c]
                /\ DateFields \subseteq ret.df.cols
                /\ date.t = "datetime" =>
                       /\ Wrote("Year") => row["Year"].t \in {"int", "float"} /\ row["Year"].n = y
                       /\ Wrote("Quarter") =>
                              row["Quarter"] = StrV(<<"Q", ToString((m - 1) \div 3 + 1)>>)
                       /\ Wrote("Month") => row["Month"] = StrV(<<"M", ToString(m)>>)

\* C9: changed is true exactly when a rule acted (a row was dropped or a
\* derived column was written); when it is false the output has exactly the
\* rows and columns of the input.
C9_ChangedIsOr ==
    HasReturned =>
        /\ ret.modified <=> (DroppedRows \/ \E c \in Derived : Wrote(c))
        /\ ~ret.modified => ret.df = arg

\* a call that dropped no row has written the date fields only and returned
\* changed = true
C9_Witness ==
    /\ HasReturned
    /\ ret.modified
    /\ ~DroppedRows
    /\ Len(arg.rows) > 0
    /\ \E c \in DateFields : Wrote(c)
    /\ ~Wrote("vessel_dwt_type") /\ ~ClassifiedNow

\* the leaf strings reachable from a node
RECURSIVE LeafStrings(_)
LeafStrings(node) ==
    IF node.kind = "list" THEN {node.items[i] : i \in DOMAIN node.items}
    ELSE IF node.kind = "dict"
    THEN UNION {LeafStrings(node.items[i].value) : i \in DOMAIN node.items}
    ELSE {}

\* C10: the keys of the mapping returned by build_commodity_mapping are exactly
\* the leaf strings reachable from the root; an empty taxonomy gives an empty
\* mapping.
C10_KeysAreLeaves ==
    pc # "start" =>
        /\ DictKeys(commodity_mapping) = LeafStrings(hierarchy)
        /\ hierarchy = EmptyTaxonomy => commodity_mapping = <<>>

\* the mapping of a taxonomy with leaves at different depths under two root
\* categories has been built
C10_Witness ==
    /\ pc # "start"
    /\ hierarchy.kind = "dict" /\ Len(hierarchy.items) = 2
    /\ hierarchy.items[1].value.kind = "dict"
    /\ hierarchy.items[2].value.kind = "list"
    /\ Cardinality(DictKeys(commodity_mapping)) = 2

\* the occurrences of leaf terms below a node: each term with the names of its
\* ancestor categories, outermost first
RECURSIVE Occurrences(_, _)
Occurrences(node, path) ==
    IF node.kind = "list" THEN {[leaf |-> node.items[i], path |-> path] : i \in DOMAIN node.items}
    ELSE IF node.kind = "dict"
    THEN UNION {Occurrences(node.items[i].value, path \o <<node.items[i].key>>) :
                   i \in DOMAIN node.items}
    ELSE {}

\* the triple the claim gives a leaf whose ancestor path is p
ClaimedTriple(p) ==
    LET l1 == IF Len(p) >= 1 THEN StrV(p[1]) ELSE StrV(<<"Unknown">>)
        l2 == IF Len(p) >= 2 THEN StrV(p[2]) ELSE l1
        l3 == IF Len(p) >= 3 THEN StrV(p[3]) ELSE l2
    IN  <<l1, l2, l3>>

\* C11: the triple of every key of the mapping is the one its ancestor path p
\* gives: level1 = p[0] or "Unknown", level2 = p[1] or level1, level3 = p[2] or
\* level2 (for a term that occurs several times, the path of one of its
\* occurrences); so a term under one category only has three equal levels.
C11_LevelAssignment ==
    pc \in {"mapped", "generated"} =>
        \A i \in DOMAIN commodity_mapping :
            LET occ == {o \in Occurrences(hierarchy, <<>>) : o.leaf = commodity_mapping[i].key}
                v == commodity_mapping[i].value
            IN  /\ \E o \in occ : v = ClaimedTriple(o.path)
                /\ (\A o \in occ : Len(o.path) = 1) => (v[1] = v[2] /\ v[2] = v[3])

\* the mapping holds a term that occurs once, under four nested categories,
\* and a term under one category
C11_Witness ==
    /\ pc \in {"mapped", "generated"}
    /\ \E i, j \in DOMAIN commodity_mapping :
           LET occ(k) == {o \in Occurrences(hierarchy, <<>>) : o.leaf = commodity_mapping[k].key}
           IN  /\ \E o \in occ(i) : occ(i) = {o} /\ Len(o.path) = 4
               /\ \E o \in occ(j) : occ(j) = {o} /\ Len(o.path) = 1

\* a row meets the populated dimension criteria of c
MeetsCriteria(r, c) ==
    /\ c.vessel_type # {} => r["vessel_dwt_type"] \in c.vessel_type
    /\ c.commodity_level1 # {} => r["commodity_type_1level"] \in c.commodity_level1
    /\ c.commodity_level2 # {} => r["commodity_type_2level"] \in c.commodity_level2
    /\ c.commodity_level3 # {} => r["commodity_type_3level"] \in c.commodity_level3

Unpopulated(c) ==
    c.vessel_type \cup c.commodity_level1 \cup c.commodity_level2 \cup c.commodity_level3 = {}

\* a chart function was called on the dataset ret.df
Charted == pc = "charted"

\* C12: the dataset a chart function filters down to is the subsequence of the
\* input rows, in input order, that meet every populated criterion on
\* vessel_dwt_type and the three commodity levels (all rows, in order, when no
\* criterion is populated); every row the aggregation reads meets them.
C12_FilterSemantics ==
    Charted =>
        /\ view.stage.cols = ret.df.cols
        /\ view.stage.rows =
               SelectSeq(ret.df.rows, LAMBDA r : MeetsCriteria(r, view.criteria))
        /\ Unpopulated(view.criteria) => view.stage.rows = ret.df.rows
        /\ \A i \in DOMAIN view.filtered.rows : MeetsCriteria(view.filtered.rows[i], view.criteria)

\* a call with the vessel criterion and the three commodity criteria
\* populated, which kept a row and left one out
C12_Witness ==
    /\ Charted
    /\ view.outcome = "done"
    /\ view.criteria.vessel_type # {}
    /\ view.criteria.commodity_level3 # {}
    /\ view.stage.rows # <<>>
    /\ Len(view.stage.rows) < Len(ret.df.rows)

\* a row is inside the date bounds supplied: its date is there and not before
\* the first bound nor after the second
InsideBounds(r, range) ==
    /\ "load_end_date" \in DOMAIN r
    /\ r["load_end_date"].t = "datetime"
    /\ r["load_end_date"].n >= range[1]
    /\ Len(range) = 2 => r["load_end_date"].n <= range[2]

\* C13: whenever a date bound is supplied in the criteria, every row a chart
\* function (trade-flow, time-series or seasonal) that returns retains has a non-null
\* load_end_date with start <= load_end_date <= end, bounds included.
C13_DateInterval ==
    (Charted /\ view.outcome # "raise" /\ view.criteria.date_range # <<>>) =>
        \A i \in DOMAIN view.filtered.rows :
            InsideBounds(view.filtered.rows[i], view.criteria.date_range)

\* C14: a call of a chart function leaves the dataset it was given as it was
\* (content of the returned dataset and of the caller's object), and a call
\* repeated with equal criteria on it returns an equal result.
C14_ReferentiallyStable ==
    [][pc' = "charted" =>
          /\ ret'.df = ret.df
          /\ raw' = raw
          /\ pc = "charted" => view' = view]_vars

\* a time-series call that applied no filter at all and wrote its Month_Year
\* column: only the copy keeps the column out of the dataset
C14_Witness ==
    /\ Charted
    /\ view.kind = "time_series"
    /\ view.outcome = "done"
    /\ Unpopulated(view.criteria)
    /\ view.criteria.selected_locations = {}
    /\ ~has_date_range(view.criteria)
    /\ "Month_Year" \in view.filtered.cols
    /\ "Month_Year" \notin ret.df.cols
    /\ aliased

\* the rows an aggregation of a chart read: those of the year for a per-year
\* ranking, else all the filtered rows
RowsRead(ch) ==
    IF isna(ch.year) THEN view.filtered.rows
    ELSE SelectSeq(view.filtered.rows, LAMBDA r : r["Year"] = ch.year)

\* the group key of a row, and whether each of its values is there
KeyOf(r, by) == [i \in DOMAIN by |-> r[by[i]]]
IsKey(k) == \A i \in DOMAIN k : k[i].t \notin {"nan", "nat"}

\* the measure of the rows at the indexes I, a missing measure counted as 0
RECURSIVE TotalOf(_, _)
TotalOf(rows, I) ==
    IF I = {} THEN 0
    ELSE LET i == CHOOSE j \in I : TRUE
             m == rows[i]["voy_intake_mt"]
         IN  (IF m.t \in {"int", "float"} THEN m.n ELSE 0) + TotalOf(rows, I \ {i})

Shown(ch) == {ch.ranking[i] : i \in DOMAIN ch.ranking}

\* C16: every per-year ranking lists groups of its aggregation, each once, in
\* descending order of their sum, at most 10 of them, none left out while
\* fewer than 10 are listed, and every listed group has a sum at least that of
\* every group left out.
C16_TopK ==
    (Charted /\ view.kind = "trade_flow" /\ view.outcome = "done") =>
        \A ch \in view.charts :
            /\ Shown(ch) \subseteq ch.groups
            /\ Cardinality(Shown(ch)) = Len(ch.ranking)
            /\ Len(ch.ranking) <= 10
            /\ Len(ch.ranking) < 10 => Shown(ch) = ch.groups
            /\ \A i, j \in DOMAIN ch.ranking :
                   i < j => ch.ranking[i].value >= ch.ranking[j].value
            /\ \A kept \in Shown(ch) : \A out \in ch.groups \ Shown(ch) :
                   kept.value >= out.value

\* a ranking of ten groups that leaves a group out
C16_Witness ==
    /\ Charted
    /\ view.kind = "trade_flow"
    /\ view.outcome = "done"
    /\ \E ch \in view.charts :
           /\ Len(ch.ranking) = 10
           /\ ch.groups \ Shown(ch) # {}
           /\ ch.ranking[1].value > ch.ranking[10].value

\* a row matches the criteria the called chart function filters by: the
\* dimension criteria, and for the time-series and seasonal functions the date
\* range (when both bounds are given) and the location selection
MatchesCall(r) ==
    /\ MeetsCriteria(r, view.criteria)
    /\ view.kind # "trade_flow" =>
           /\ has_date_range(view.criteria) => InsideBounds(r, view.criteria.date_range)
           /\ view.criteria.selected_locations # {} =>
                  r[view.criteria.location_type] \in view.criteria.selected_locations

NoRowMatches == \A i \in DOMAIN ret.df.rows : ~MatchesCall(ret.df.rows[i])

\* C17: when no row of the dataset matches the criteria (also when the last
\* rows go with the location selection, which is applied after the dimension
\* and date filters), the chart function completes without raising and its
\* aggregation has no group.
C17_EmptyResultsValid ==
    (Charted /\ NoRowMatches) =>
        /\ view.outcome # "raise"
        /\ \A ch \in view.charts : ch.groups = {}

\* the download of the taxonomy document failed: download_json_file raised,
\* or returned None
LoadFailed(gh) == download_json_file(gh).raised \/ download_json_file(gh).value = None

\* two category levels above every terminal list
TwoLevel(node) ==
    /\ node.kind = "dict" /\ node.items # <<>>
    /\ \A i \in DOMAIN node.items :
        /\ node.items[i].value.kind = "dict" /\ node.items[i].value.items # <<>>
        /\ \A j \in DOMAIN node.items[i].value.items :
               node.items[i].value.items[j].value.kind = "list"

IronOre == StrV(<<"I", "r", "o", "n", " ", "O", "r", "e">>)
Coal == StrV(<<"C", "o", "a", "l">>)
Steel == StrV(<<"S", "t", "e", "e", "l">>)

\* C20: when the download or the parse of the taxonomy document fails
\* (download_json_file returns None or raises), load_commodity_hierarchy
\* returns the built-in default two-level taxonomy, with the leaves "Iron Ore",
\* "Coal" and "Steel", and the session goes on to flatten it: the mapping in use
\* classifies these leaves under the default's categories.
C20_FallbackToDefault ==
    (session.loaded /\ LoadFailed(session.from)) =>
        /\ hierarchy = get_default_commodity_hierarchy
        /\ TwoLevel(hierarchy)
        /\ {IronOre, Coal, Steel} \subseteq LeafStrings(hierarchy)
        /\ DictKeys(commodity_mapping) = LeafStrings(hierarchy)
        /\ DictGet(commodity_mapping, Steel) =
               <<StrV(<<"M", "i", "n", "o", "r", " ", "B", "u", "l", "k", "s">>), StrV(<<"S", "t", "e", "e", "l", " ", "P", "r", "o", "d", "u", "c", "t", "s">>), StrV(<<"S", "t", "e", "e", "l", " ", "P", "r", "o", "d", "u", "c", "t", "s">>)>>
        /\ served.mapping = commodity_mapping

\* a session whose taxonomy download failed while the dataset was read, and
\* whose run went on to generate and serve the dataset
C20_Witness ==
    /\ pc = "served"
    /\ session.loaded /\ LoadFailed(session.from)
    /\ session.from.status = "ok"
    /\ ~served.none /\ served.df.rows # <<>>
    /\ "commodity_type_1level" \in served.df.cols

\* the taxonomy document the repository currently stores: the document of the
\* file, through the base64 layers it was stored with
StoredDocument(gh) ==
    IF gh.hierarchy.enc = "b64" THEN gh.hierarchy.body.body ELSE gh.hierarchy.body

\* the repository answers and stores a non-empty taxonomy document
StoresDocument(gh) ==
    /\ gh.status = "ok"
    /\ gh.hierarchy.enc # "absent"
    /\ StoredDocument(gh).kind = "dict" /\ StoredDocument(gh).items # <<>>

\* C18: after any sequence of taxonomy saves and reruns within a session, the
\* mapping passed to load_and_process_data equals build_commodity_mapping of
\* the taxonomy document currently stored.
C18_MappingFollowsDocument ==
    (pc = "served" /\ StoresDocument(github)) =>
        served.mapping = build_commodity_mapping(StoredDocument(github))

\* the commodity column of a dataset, row by row
CommodityColumn(df) == [i \in DOMAIN df.rows |-> df.rows[i]["commodity"]]

\* C19: after any sequence of loads (the generated dataset being persisted)
\* and mapping changes, the dataset served holds the laden voyages of the raw
\* data, and the three commodity level values of each row
\* are the classification of the row's commodity under the mapping in use.
C19_DatasetFollowsMapping ==
    (pc = "served" /\ ~served.none) =>
        /\ {"commodity"} \cup CommodityFields \subseteq served.df.cols
        /\ CommodityColumn(served.df) =
               CommodityColumn(Frame(raw0.cols, SelectSeq(raw0.rows, IsLaden)))
        /\ \A i \in DOMAIN served.df.rows :
               <<served.df.rows[i]["commodity_type_1level"],
                 served.df.rows[i]["commodity_type_2level"],
                 served.df.rows[i]["commodity_type_3level"]>>
                   = ClaimedLevels(served.df.rows[i]["commodity"], served.mapping)

\* the occurrences of leaf terms below a node in the order of a depth-first
\* traversal that follows the insertion order of the keys
RECURSIVE OccurrenceSeq(_, _, _)
OccurrenceSeq(node, path, i) ==
    IF i > Len(node.items) THEN <<>>
    ELSE IF node.kind = "list"
    THEN <<[leaf |-> node.items[i], path |-> path]>> \o OccurrenceSeq(node, path, i + 1)
    ELSE IF node.kind = "dict"
    THEN OccurrenceSeq(node.items[i].value, path \o <<node.items[i].key>>, 1)
             \o OccurrenceSeq(node, path, i + 1)
    ELSE <<>>

\* the positions at which a term occurs in that order
PositionsOf(leaf, occs) == {k \in DOMAIN occs : occs[k].leaf = leaf}
Max(S) == CHOOSE x \in S : \A y \in S : y <= x

\* C21: a leaf term that occurs under several branches of the taxonomy is a key
\* of the mapping exactly once, and its triple is the one of the path of its
\* last occurrence in depth-first, key-insertion-order traversal.
C21_LastWriteWins ==
    pc \in {"mapped", "generated"} =>
        LET occs == OccurrenceSeq(hierarchy, <<>>, 1)
        IN  \A k \in DOMAIN occs :
                /\ Cardinality({i \in DOMAIN commodity_mapping :
                                   commodity_mapping[i].key = occs[k].leaf}) = 1
                /\ \A i \in DOMAIN commodity_mapping :
                       commodity_mapping[i].key = occs[k].leaf =>
                           commodity_mapping[i].value =
                               ClaimedTriple(occs[Max(PositionsOf(occs[k].leaf, occs))].path)

\* a term occurs under two branches whose paths give different triples
C21_Witness ==
    /\ pc \in {"mapped", "generated"}
    /\ LET occs == OccurrenceSeq(hierarchy, <<>>, 1)
       IN  \E k, l \in DOMAIN occs :
               /\ k < l
               /\ occs[k].leaf = occs[l].leaf
               /\ ClaimedTriple(occs[k].path) # ClaimedTriple(occs[l].path)
               /\ DictHas(commodity_mapping, occs[k].leaf)

\* the step is a run of the body of load_and_process_data (no cache entry)
BodyRan == pc' = "served" /\ served'.ran

\* the body reads the file the last upload of the dataset wrote, with the
\* mapping of that upload
ReadsPersisted ==
    /\ persisted.done
    /\ github.data = persisted.data
    /\ served'.mapping = persisted.mapping

\* C22: load_and_process_data uploads the dataset only when generate returned
\* changed = true; and once a load has uploaded the dataset, a later load of
\* that stored dataset with the same mapping returns the dataset, generates
\* nothing (changed = false) and performs no upload: the stored file stays.
C22_PersistOnce ==
    [][BodyRan =>
          /\ served'.uploaded => (ret'.modified /\ ~ret'.raised)
          /\ ~served'.uploaded => github'.data = github.data
          /\ ReadsPersisted =>
                 /\ ~served'.none
                 /\ ~ret'.modified /\ ~ret'.raised
                 /\ ~served'.uploaded
                 /\ github'.data = github.data]_vars

\* a load has read the dataset an earlier load uploaded, with the same mapping,
\* served its rows and uploaded nothing
C22_Witness ==
    /\ pc = "served" /\ served.ran
    /\ persisted.done
    /\ github.data = persisted.data
    /\ served.mapping = persisted.mapping
    /\ ~served.none /\ served.df.rows # <<>>
    /\ ~ret.modified /\ ~served.uploaded

\* the values of load_end_date that are no date
UnparseableDates == {Garbage, Date("2023", "13", "01"), Date("2023", "02", "30")}

\* C23: generate coerces load_end_date to a date type, unparseable values
\* becoming null, exactly when the column is present and at least one of Year,
\* Quarter, Month is absent; when all three are present load_end_date is
\* returned exactly as received.
C23_CoercionOnlyWhenFieldMissing ==
    (HasReturned /\ "load_end_date" \in arg.cols) =>
        \A i \in DOMAIN ret.df.rows :
            LET old == PassLaden(arg)[i]["load_end_date"]
                new == ret.df.rows[i]["load_end_date"]
            IN  IF DateFields \subseteq arg.cols
                THEN new = old
                ELSE /\ new.t \in {"datetime", "nat"}
                     /\ old \in UnparseableDates \cup {NaN} => new = NaT
                     /\ old = GoodDate => new = Timestamp(20230215)
                     /\ old.t = "datetime" => new = old

\* a call on a dataset that lacks one of Year, Quarter, Month only: a date
\* string came back as a date and an unparseable string as null
C23_Witness ==
    /\ HasReturned
    /\ "load_end_date" \in arg.cols
    /\ Cardinality(DateFields \ arg.cols) = 1
    /\ \E i, j \in DOMAIN ret.df.rows :
           /\ PassLaden(arg)[i]["load_end_date"] = GoodDate
           /\ ret.df.rows[i]["load_end_date"] = Timestamp(20230215)
           /\ PassLaden(arg)[j]["load_end_date"] \in UnparseableDates
           /\ ret.df.rows[j]["load_end_date"] = NaT

====
